---- MODULE Spec2Model ----
(***************************************************************************)
(* Kobo -> SharePoint direct media transfer (src/kobo_sharepoint_media.py) *)
(* as a state machine.                                                     *)
(*                                                                         *)
(* A Python str is modelled as a sequence of one-character strings, so     *)
(* that split / startswith / endswith / filtering are computed character   *)
(* by character as the code computes them.                                 *)
(***************************************************************************)
EXTENDS Integers, Sequences, FiniteSets, TLC

(***************************************************************************)
(* Text helpers (Python str operations)                                    *)
(***************************************************************************)
Digits == {"0", "1", "2", "3", "4", "5", "6", "7", "8", "9"}

DigitSeq == <<"0", "1", "2", "3", "4", "5", "6", "7", "8", "9">>

Letters ==
    {"a", "b", "c", "d", "e", "f", "g", "h", "i", "j", "k", "l", "m",
     "n", "o", "p", "q", "r", "s", "t", "u", "v", "w", "x", "y", "z",
     "A", "B", "C", "D", "E", "F", "G", "H", "I", "J", "K", "L", "M",
     "N", "O", "P", "Q", "R", "S", "T", "U", "V", "W", "X", "Y", "Z"}

\* str.isalnum() of one character
IsAlnum(c) == c \in Digits \cup Letters

\* the regular-expression class \w of one character
IsWord(c) == IsAlnum(c) \/ c = "_"

RECURSIVE IntToStr(_)
\* str(n) / f"{n}" of a non-negative integer
IntToStr(n) ==
    IF n < 10 THEN <<DigitSeq[n + 1]>>
    ELSE IntToStr(n \div 10) \o <<DigitSeq[(n % 10) + 1]>>

DigitVal(c) == CHOOSE d \in 0..9 : DigitSeq[d + 1] = c

IsDigits(s) == \A i \in 1..Len(s) : s[i] \in Digits

RECURSIVE StrToNat(_)
\* int(s) of a digit string
StrToNat(s) ==
    IF Len(s) = 0 THEN 0
    ELSE 10 * StrToNat(SubSeq(s, 1, Len(s) - 1)) + DigitVal(s[Len(s)])

\* s.startswith(p)
StartsWith(s, p) == Len(p) <= Len(s) /\ SubSeq(s, 1, Len(p)) = p

\* s.endswith(p)
EndsWith(s, p) ==
    Len(p) <= Len(s) /\ SubSeq(s, Len(s) - Len(p) + 1, Len(s)) = p

\* c in s
Contains(s, c) == \E i \in 1..Len(s) : s[i] = c

\* s.find(c) + 1 : position of the first c, 0 when there is none
IndexOf(s, c) ==
    IF Contains(s, c) THEN CHOOSE i \in 1..Len(s) :
                               s[i] = c /\ \A j \in 1..(i - 1) : s[j] # c
    ELSE 0

\* s.rfind(c) + 1 : position of the last c, 0 when there is none
LastIndexOf(s, c) ==
    IF Contains(s, c) THEN CHOOSE i \in 1..Len(s) :
                               s[i] = c /\ \A j \in (i + 1)..Len(s) : s[j] # c
    ELSE 0

RECURSIVE Split(_, _)
\* s.split(c) for a one-character separator: always at least one part
Split(s, c) ==
    LET i == IndexOf(s, c) IN
    IF i = 0 THEN <<s>>
    ELSE <<SubSeq(s, 1, i - 1)>> \o Split(SubSeq(s, i + 1, Len(s)), c)

RECURSIVE Strip(_)
\* s.strip() (blanks)
Strip(s) ==
    IF Len(s) = 0 THEN s
    ELSE IF s[1] = " " THEN Strip(Tail(s))
    ELSE IF s[Len(s)] = " " THEN Strip(SubSeq(s, 1, Len(s) - 1))
    ELSE s

\* [f(c) for c in s]
MapChars(s, F(_)) == [i \in 1..Len(s) |-> F(s[i])]

\* os.path.splitext(p): <<root, ext>>; the extension starts at the last dot
\* unless that dot is one of the leading dots of the last path component
splitext(p) ==
    LET sepIndex == LastIndexOf(p, "/")
        dotIndex == LastIndexOf(p, ".")
    IN IF /\ dotIndex > sepIndex
          /\ \E k \in (sepIndex + 1)..(dotIndex - 1) : p[k] # "."
       THEN <<SubSeq(p, 1, dotIndex - 1), SubSeq(p, dotIndex, Len(p))>>
       ELSE <<p, <<>>>>

(***************************************************************************)
(* Literals of the source                                                  *)
(***************************************************************************)
ROW == <<"r", "o", "w">>

DOT_JPG == <<".", "j", "p", "g">>

TEST_JPG == <<"t", "e", "s", "t", ".", "j", "p", "g">>

SAFE_EXTRA == {".", "_", "-"}

MaxSafeLen == 100

KeepLen == 95

(***************************************************************************)
(* sanitize_filename                                                       *)
(***************************************************************************)
SanitizeChar(c) == IF IsWord(c) \/ c \in {".", "-"} THEN c ELSE "_"

sanitize_filename(filename) ==
    LET safe_filename == MapChars(filename, SanitizeChar) IN
    IF Len(safe_filename) > MaxSafeLen
    THEN LET se == splitext(safe_filename) IN
         SubSeq(se[1], 1, IF Len(se[1]) < KeepLen THEN Len(se[1]) ELSE KeepLen)
             \o se[2]
    ELSE safe_filename

(***************************************************************************)
(* format_date: a field value is [kind, s] with kind "str" (s its text),   *)
(* "missing" (the key is absent: .get gives '') or "other" (a truthy       *)
(* value that is no str, e.g. a number or a list)                          *)
(***************************************************************************)
StrVal(s) == [kind |-> "str", s |-> s]

MissingVal == [kind |-> "missing", s |-> <<>>]

OtherVal == [kind |-> "other", s |-> <<>>]

\* the value as .get(column, '') hands it on
GetOrEmpty(v) == IF v.kind = "missing" THEN StrVal(<<>>) ELSE v

Pad(s, n) == [i \in 1..(n - Len(s)) |-> "0"] \o s

NumIn(s, lo, hi, maxlen) ==
    /\ Len(s) >= 1
    /\ Len(s) <= maxlen
    /\ IsDigits(s)
    /\ StrToNat(s) >= lo
    /\ StrToNat(s) <= hi

IsLeap(y) == (y % 4 = 0 /\ y % 100 # 0) \/ y % 400 = 0

DaysIn(y, m) ==
    IF m = 2 THEN (IF IsLeap(y) THEN 29 ELSE 28)
    ELSE IF m \in {4, 6, 9, 11} THEN 30 ELSE 31

\* datetime(y, m, d) accepts the three fields (strptime's %Y %m %d)
DateFieldsOK(y, m, d) ==
    /\ Len(y) = 4
    /\ NumIn(y, 1, 9999, 4)
    /\ NumIn(m, 1, 12, 2)
    /\ NumIn(d, 1, 31, 2)
    /\ StrToNat(d) <= DaysIn(StrToNat(y), StrToNat(m))

\* strftime("%Y-%m-%d")
Strftime(y, m, d) == Pad(y, 4) \o <<"-">> \o Pad(m, 2) \o <<"-">> \o Pad(d, 2)

\* %H:%M:%S
TimeOK(t) ==
    LET p == Split(t, ":") IN
    /\ Len(p) = 3
    /\ NumIn(p[1], 0, 23, 2)
    /\ NumIn(p[2], 0, 59, 2)
    /\ NumIn(p[3], 0, 61, 2)

\* %H:%M:%S.%f
TimeFracOK(t) ==
    LET p == Split(t, ".") IN
    /\ Len(p) = 2
    /\ TimeOK(p[1])
    /\ NumIn(p[2], 0, 999999, 6)

\* one entry of date_formats applied to the stripped text: the formatted
\* date, or <<>> for ValueError
TryFormat(fmt, s) ==
    LET slash == Split(s, "/")
        blank == SelectSeq(Split(s, " "), LAMBDA x : x # <<>>)
        tee == Split(s, "T")
        ymd(x) == LET q == Split(x, "-") IN
                  IF Len(q) = 3 /\ DateFieldsOK(q[1], q[2], q[3])
                  THEN Strftime(q[1], q[2], q[3]) ELSE <<>>
    IN CASE fmt = 1 -> ymd(s)
         [] fmt = 2 -> IF Len(slash) = 3 /\ DateFieldsOK(slash[3], slash[1], slash[2])
                       THEN Strftime(slash[3], slash[1], slash[2]) ELSE <<>>
         [] fmt = 3 -> IF Len(slash) = 3 /\ DateFieldsOK(slash[3], slash[2], slash[1])
                       THEN Strftime(slash[3], slash[2], slash[1]) ELSE <<>>
         [] fmt = 4 -> IF Len(blank) = 2 /\ TimeOK(blank[2]) THEN ymd(blank[1]) ELSE <<>>
         [] fmt = 5 -> IF Len(tee) = 2 /\ TimeOK(tee[2]) THEN ymd(tee[1]) ELSE <<>>
         [] fmt = 6 -> IF Len(tee) = 2 /\ TimeFracOK(tee[2]) THEN ymd(tee[1]) ELSE <<>>

NumFormats == 6

\* re.search(r'(\d{4})-(\d{2})-(\d{2})', s): the first match, or <<>>
DatePatternAt(s, i) ==
    /\ i + 9 <= Len(s)
    /\ \A k \in {0, 1, 2, 3, 5, 6, 8, 9} : s[i + k] \in Digits
    /\ s[i + 4] = "-"
    /\ s[i + 7] = "-"

SearchDate(s) ==
    IF \E i \in 1..Len(s) : DatePatternAt(s, i)
    THEN LET i == CHOOSE i \in 1..Len(s) :
                      DatePatternAt(s, i) /\ \A j \in 1..(i - 1) : ~DatePatternAt(s, j)
         IN SubSeq(s, i, i + 9)
    ELSE <<>>

format_date(date_value) ==
    IF date_value.kind = "missing" \/ (date_value.kind = "str" /\ date_value.s = <<>>)
    THEN <<>>
    ELSE IF date_value.kind # "str"
    THEN <<>>                       \* .strip raises, the outer except returns ""
    ELSE LET s == Strip(date_value.s)
             hits == {f \in 1..NumFormats : TryFormat(f, s) # <<>>}
         IN IF hits # {}
            THEN TryFormat(CHOOSE f \in hits : \A g \in hits : f <= g, s)
            ELSE SearchDate(date_value.s)

(***************************************************************************)
(* clean_text_for_filename                                                 *)
(***************************************************************************)
\* the call raises (a truthy value that has no .replace)
CleanRaises(text) == text.kind = "other"

CleanChar(c) == IF c \in {" ", "/", "\\"} THEN "_" ELSE c

clean_text_for_filename(text) ==
    IF text.kind # "str" \/ text.s = <<>> THEN <<>>
    ELSE SelectSeq(MapChars(text.s, CleanChar),
                   LAMBDA c : IsAlnum(c) \/ c \in {"_", "-"})

(***************************************************************************)
(* create_filename: the name and the value it leaves in                    *)
(* current_form_naming_format.  row_data is [isdict, Date, Receipt_Type].  *)
(***************************************************************************)
FallbackName(row_num, base_filename) ==
    ROW \o IntToStr(row_num) \o <<"_">> \o base_filename

SafeName(custom_name) ==
    SelectSeq(custom_name, LAMBDA c : IsAlnum(c) \/ c \in SAFE_EXTRA)

\* a variant of create_filename that asks for the date alone
create_filename_DateOnly(row_data, row_num, base_filename) ==
    IF ~row_data.isdict \/ CleanRaises(GetOrEmpty(row_data.Receipt_Type))
    THEN [name |-> FallbackName(row_num, base_filename), fmt |-> "fallback"]
    ELSE LET formatted_date == format_date(GetOrEmpty(row_data.Date))
             clean_receipt_type ==
                 clean_text_for_filename(GetOrEmpty(row_data.Receipt_Type))
             ext0 == splitext(base_filename)[2]
             file_ext == IF ext0 # <<>> THEN ext0 ELSE DOT_JPG
         IN IF formatted_date # <<>>
            THEN [name |-> SafeName(formatted_date \o <<"_">> \o clean_receipt_type
                                    \o <<"_">> \o IntToStr(row_num) \o file_ext),
                  fmt |-> "custom"]
            ELSE [name |-> SafeName(FallbackName(row_num, base_filename)),
                  fmt |-> "fallback"]

create_filename(row_data, row_num, base_filename) ==
    IF ~row_data.isdict \/ CleanRaises(GetOrEmpty(row_data.Receipt_Type))
    THEN \* except branch
         [name |-> FallbackName(row_num, base_filename), fmt |-> "fallback"]
    ELSE LET formatted_date == format_date(GetOrEmpty(row_data.Date))
             clean_receipt_type ==
                 clean_text_for_filename(GetOrEmpty(row_data.Receipt_Type))
             ext0 == splitext(base_filename)[2]
             file_ext == IF ext0 # <<>> THEN ext0 ELSE DOT_JPG
         IN IF formatted_date # <<>> /\ clean_receipt_type # <<>>
            THEN [name |-> SafeName(formatted_date \o <<"_">> \o clean_receipt_type
                                    \o <<"_">> \o IntToStr(row_num) \o file_ext),
                  fmt |-> "custom"]
            ELSE [name |-> SafeName(FallbackName(row_num, base_filename)),
                  fmt |-> "fallback"]

(***************************************************************************)
(* is_file_already_uploaded: existing_files is a function from form folder *)
(* names to sets of file names; fmt is current_form_naming_format          *)
(***************************************************************************)
\* a variant of CustomSuffix that leaves the extension out
CustomSuffix_NoExt(filename) ==
    LET parts == Split(filename, "_")
        row_num_part == parts[Len(parts)]
    IN <<"_">> \o Split(row_num_part, ".")[1]

\* a variant of FallbackPrefix that leaves the closing underscore out
FallbackPrefix_Open(filename) ==
    LET row_part == Split(filename, "_")[1]
    IN ROW \o SubSeq(row_part, 4, Len(row_part))

CustomSuffix(filename) ==
    LET parts == Split(filename, "_")
        row_num_part == parts[Len(parts)]
        dots == Split(row_num_part, ".")
        row_num == dots[1]
        file_ext == IF Contains(row_num_part, ".") THEN <<".">> \o dots[2] ELSE <<>>
    IN <<"_">> \o row_num \o file_ext

FallbackPrefix(filename) ==
    LET row_part == Split(filename, "_")[1]
        row_num == SubSeq(row_part, 4, Len(row_part))
    IN ROW \o row_num \o <<"_">>

is_file_already_uploaded(filename, form_name, existing_files, fmt) ==
    IF form_name \notin DOMAIN existing_files THEN FALSE
    ELSE LET files == existing_files[form_name] IN
         IF filename \in files THEN TRUE
         ELSE IF fmt = "custom"
         THEN /\ Len(Split(filename, "_")) >= 3
              /\ \E existing_file \in files :
                     EndsWith(existing_file, CustomSuffix(filename))
         ELSE IF fmt = "fallback"
         THEN /\ StartsWith(filename, ROW)
              /\ \/ \E existing_file \in files :
                        StartsWith(existing_file, FallbackPrefix(filename))
                 \/ filename \in files
         ELSE FALSE

(***************************************************************************)
(* The destination store: a set of items [path, folder], a path being the  *)
(* sequence of names from the drive root                                   *)
(***************************************************************************)
Folder(path) == [path |-> path, folder |-> TRUE]

File(path) == [path |-> path, folder |-> FALSE]

Exists(d, path) == \E it \in d : it.path = path

Parent(path) == SubSeq(path, 1, Len(path) - 1)

\* the children a listing of `path` returns: <<name, is folder>>
Children(d, path) ==
    {it \in d : Len(it.path) = Len(path) + 1 /\ Parent(it.path) = path}

Last(path) == path[Len(path)]

\* a successful write of a file: the file exists afterwards, and so does
\* every folder on its path
Ancestors(path) == {Folder(SubSeq(path, 1, k)) : k \in 1..(Len(path) - 1)}

WriteFile(d, folder_path, filename) ==
    LET path == Append(folder_path, filename) IN
    {it \in d : it.path # path} \cup {File(path)} \cup Ancestors(path)

\* create_sharepoint_folder: nothing when the path answers 200; else one
\* create request for the last segment under its parent, `created` being
\* whether the store accepts it (it cannot when the parent is missing)
create_sharepoint_folder(d, folder_path, created) ==
    IF Exists(d, folder_path) THEN d
    ELSE IF created /\ (Len(folder_path) = 1 \/ Exists(d, Parent(folder_path)))
    THEN d \cup {Folder(folder_path)}
    ELSE d

(***************************************************************************)
(* get_existing_files_in_sharepoint.  `out` gives each listing's outcome   *)
(* ("ok": status 200, "bad": another status, "raise": the request raises)  *)
(* and `order` the order in which the main folder's listing returns the    *)
(* form folders.                                                           *)
(***************************************************************************)
ListingOutcomes == {"ok", "bad", "raise"}

FolderNames(d, path) == {Last(it.path) : it \in {c \in Children(d, path) : c.folder}}

FileNames(d, path) == {Last(it.path) : it \in {c \in Children(d, path) : ~c.folder}}

\* the listings made for one form folder raise
FormRaises(d, main, form_name, out) ==
    \/ out[<<main, form_name>>] = "raise"
    \/ /\ out[<<main, form_name>>] = "ok"
       /\ \E sub \in FolderNames(d, <<main, form_name>>) :
              out[<<main, form_name, sub>>] = "raise"

\* a variant of FormFiles that leaves the sub-folders out
FormFiles_Shallow(d, main, form_name, out) ==
    IF out[<<main, form_name>>] # "ok" THEN {}
    ELSE FileNames(d, <<main, form_name>>)

\* form_files of one form folder whose listings do not raise
FormFiles(d, main, form_name, out) ==
    IF out[<<main, form_name>>] # "ok" THEN {}
    ELSE FileNames(d, <<main, form_name>>)
         \cup UNION {FileNames(d, <<main, form_name, sub>>) :
                        sub \in {x \in FolderNames(d, <<main, form_name>>) :
                                    out[<<main, form_name, x>>] = "ok"}}

get_existing_files_in_sharepoint(d, main, order, out) ==
    IF out[<<main>>] # "ok" THEN <<>>
    ELSE LET raising == {i \in 1..Len(order) : FormRaises(d, main, order[i], out)}
             stop == IF raising = {} THEN Len(order) + 1
                     ELSE CHOOSE i \in raising : \A j \in raising : i <= j
             kept == {order[i] : i \in 1..(stop - 1)}
         IN [form_name \in kept |-> FormFiles(d, main, form_name, out)]

\* the folder paths a build may list
ListedPaths(d, main) ==
    {<<main>>}
    \cup {<<main, f>> : f \in FolderNames(d, <<main>>)}
    \cup UNION {{<<main, f, s>> : s \in FolderNames(d, <<main, f>>)} :
                   f \in FolderNames(d, <<main>>)}

RECURSIVE Orders(_)
\* every order in which a set of names can be listed
Orders(S) ==
    IF S = {} THEN {<<>>}
    ELSE UNION {{<<x>> \o o : o \in Orders(S \ {x})} : x \in S}

(***************************************************************************)
(* State                                                                   *)
(***************************************************************************)
VARIABLES
    pc,                          \* position of run() / process_form_media
    forms,                       \* selected_forms with the data fetched for each
    dest,                        \* the destination store
    existing_files,              \* the catalog built by step 4 of run()
    stats,                       \* self.stats
    current_form_naming_format,  \* self.current_form_naming_format
    cur,                         \* loop indices: form, row_num, field, media
    media_urls,                  \* media_urls of the field being processed
    form_stats,                  \* form_stats of the form being processed
    results,                     \* what process_form_media returned, per form
    xfer,                        \* stream_media_to_sharepoint's locals
    hist,                        \* observations kept for the properties
    call,                        \* arguments of a function applied on its own
    ret                          \* and its result

vars == <<pc, forms, dest, existing_files, stats, current_form_naming_format,
          cur, media_urls, form_stats, results, xfer, hist, call, ret>>

runVars == <<pc, forms, dest, existing_files, stats, cur, media_urls,
             form_stats, results, xfer, hist>>

(***************************************************************************)
(* Constants of stream_media_to_sharepoint                                 *)
(***************************************************************************)
DirectLimit == 4 * 1024 * 1024

chunk_size == 320 * 1024

\* headers.get('content-length') when the source sends none
NoLength == -1

SessionOK == {200}

UploadOK == {200, 201}

ChunkOK == {200, 201, 202}

\* a variant of IsSmallFile whose limit is inclusive
IsSmallFile_Inclusive(content_length) ==
    content_length # NoLength /\ content_length <= DirectLimit

\* line 161: the file is uploaded with one PUT
IsSmallFile(content_length) ==
    content_length # NoLength /\ content_length < DirectLimit

(***************************************************************************)
(* Inputs: the sources, attachments, submissions and forms of a run        *)
(***************************************************************************)
\* body size of the source that reports no content length
NoLenBody == 700000

\* a status the destination answers when it refuses a request
RefusedStatus == 503

MAIN ==
    <<"K", "o", "b", "o", "M", "e", "d", "i", "a", "_", "D", "i", "r", "e", "c", "t",
      "_", "2", "0", "2", "5", "0", "1", "0", "1", "_", "0", "0", "0", "0", "0", "0">>

Src(length, body) == [length |-> length, body |-> body]

SrcEdge == Src(DirectLimit - 1, DirectLimit - 1)

SrcBig == Src(DirectLimit, DirectLimit)

SrcNoLen == Src(NoLength, NoLenBody)

Att(large, dflt, medium, filename, src) ==
    [download_large_url |-> large, download_url |-> dflt,
     download_medium_url |-> medium, filename |-> filename, src |-> src]

AttA == Att("", "urlA", "", StrVal(<<"a", ".", "j", "p", "g">>), SrcEdge)

AttB == Att("", "urlB", "", StrVal(<<"b", ".", "j", "p", "g">>), SrcNoLen)

AttC == Att("", "urlC", "", StrVal(<<"c", ".", "p", "n", "g">>), SrcBig)

\* "filename": null : sanitize_filename raises on it
AttBad == Att("", "urlX", "", OtherVal, SrcEdge)

COL_PHOTO == <<"p", "h", "o", "t", "o">>

COL_DOC == <<"d", "o", "c", " ", "s", "c", "a", "n">>

COL_NOTE == <<"n", "o", "t", "e">>

Field(col, atts) == [col |-> col, atts |-> atts]

FieldLists ==
    { <<Field(COL_PHOTO, <<AttA>>)>>,
      <<Field(COL_PHOTO, <<AttA, AttB>>)>>,
      <<Field(COL_PHOTO, <<AttC>>)>>,
      <<Field(COL_NOTE, <<>>), Field(COL_PHOTO, <<AttBad, AttA>>),
        Field(COL_DOC, <<AttC>>)>> }

SimpleFieldLists == { <<Field(COL_PHOTO, <<AttA>>)>> }

DATE_1 == <<"2", "0", "2", "5", "-", "0", "6", "-", "2", "6">>

TYPE_1 == <<"F", "u", "e", "l">>

Submission(isdict, date, type, fields) ==
    [isdict |-> isdict, Date |-> date, Receipt_Type |-> type, fields |-> fields]

RichRow(fields) == Submission(TRUE, StrVal(DATE_1), StrVal(TYPE_1), fields)

PlainRow(fields) == Submission(TRUE, MissingVal, StrVal(TYPE_1), fields)

\* an element of the fetched list that is no dict
NonDictRow == Submission(FALSE, MissingVal, MissingVal, <<>>)

FirstRows == {RichRow(f) : f \in FieldLists} \cup {PlainRow(f) : f \in FieldLists}
             \cup {NonDictRow}

LaterRows == {RichRow(f) : f \in SimpleFieldLists}
             \cup {PlainRow(f) : f \in SimpleFieldLists}

\* submissions per form
MaxSubs == 2

\* forms per run
MaxForms == 2

RECURSIVE SeqsUpTo(_, _)
\* the sequences over S of length 0..n
SeqsUpTo(S, n) ==
    IF n = 0 THEN {<<>>}
    ELSE LET shorter == SeqsUpTo(S, n - 1) IN
         shorter \cup {Append(q, x) : q \in shorter, x \in S}

DataSets ==
    {<<>>} \cup {<<first>> \o rest : first \in FirstRows,
                                     rest \in SeqsUpTo(LaterRows, MaxSubs - 1)}

SimpleDataSets == {<<r>> : r \in LaterRows}

FORM_ == <<"F", "o", "r", "m", " ">>

\* the form's name: a str with characters the folder name must not keep
FormName(i) == StrVal(FORM_ \o IntToStr(i) \o <<"/", "x">>)

Form(name, data) == [name |-> name, data |-> data]

FormLists ==
    {<<Form(FormName(1), d)>> : d \in DataSets}
    \cup {<<Form(OtherVal, d)>> : d \in SimpleDataSets}
    \cup {<<Form(FormName(1), d)>> \o rest :
             d \in SimpleDataSets,
             rest \in {q \in SeqsUpTo({Form(FormName(2), e) : e \in SimpleDataSets}
                                      \cup {Form(FormName(1), e) : e \in SimpleDataSets},
                                      MaxForms - 1) : q # <<>>}}

(***************************************************************************)
(* Destinations a run may start from                                       *)
(***************************************************************************)
\* re.sub(r'[^\w\s-]', '_', form_name)
SafeFormChar(c) == IF IsWord(c) \/ c \in {" ", "-"} THEN c ELSE "_"

safe_form_name(form_name) == MapChars(form_name, SafeFormChar)

ColNameLen == 50

\* re.sub(r'[^\w-]', '_', col_name)[:50]
ColFolderChar(c) == IF IsWord(c) \/ c = "-" THEN c ELSE "_"

col_folder_name(col_name) ==
    LET n == MapChars(col_name, ColFolderChar) IN
    SubSeq(n, 1, IF Len(n) < ColNameLen THEN Len(n) ELSE ColNameLen)

OLD_RICH_1 ==
    <<"2", "0", "2", "4", "-", "0", "1", "-", "0", "2", "_", "F", "o", "o", "d",
      "_", "1", ".", "j", "p", "g">>

OLD_PLAIN_2 == <<"r", "o", "w", "2", "_", "x", ".", "j", "p", "g">>

FORM_1_FOLDER == safe_form_name(FormName(1).s)

InitialDests ==
    { {},
      WriteFile({}, <<MAIN, FORM_1_FOLDER, col_folder_name(COL_PHOTO)>>, OLD_RICH_1),
      WriteFile({}, <<MAIN, FORM_1_FOLDER>>, OLD_PLAIN_2) }

(***************************************************************************)
(* Initial state: run() is entered with the selected forms                 *)
(***************************************************************************)
ZeroStats ==
    [total_media |-> 0, transferred |-> 0, failed |-> 0, skipped |-> 0,
     total_size |-> 0]

ZeroFormStats == [processed |-> 0, failed |-> 0, skipped |-> 0]

IdleXfer ==
    [pc |-> "idle", src |-> Src(NoLength, 0), folder |-> <<>>, filename |-> <<>>,
     content_length |-> NoLength, file_size |-> 0, offset |-> 0, remaining |-> 0,
     reqs |-> <<>>, src_error |-> FALSE, success |-> FALSE]

\* statsAtCall, statsAtForm: self.stats when the current transfer / form began;
\* formFmt: the naming format FormStart found on the first submission;
\* dupFmt, dupRow: the format and row of the form's last duplicate check;
\* buildClean: every listing of the catalog build answered 200;
\* formMedia: media counted per form; run, prevResults, prevMedia: the number
\* of this run and what the run before it returned; builds, built: how often
\* the catalog was built in this run, and the catalog as built; visited: the
\* columns (form, row, column) whose body was entered; errs: the columns whose
\* body raised, each with the form's counters at that moment; wrote: the paths
\* the transfers of the current form have written
ZeroHist ==
    [statsAtCall |-> ZeroStats, statsAtForm |-> ZeroStats, formFmt |-> "none",
     dupFmt |-> "none", dupRow |-> 0, buildClean |-> FALSE, formMedia |-> <<>>,
     run |-> 1, prevResults |-> <<>>, prevMedia |-> <<>>,
     builds |-> 0, built |-> <<>>, visited |-> {}, errs |-> {},
     wrote |-> {}]

StartCur == [form |-> 1, row |-> 0, field |-> 0, media |-> 0]

RunInit(fs, d) ==
    /\ pc = "auth"
    /\ forms = fs
    /\ dest = d
    /\ existing_files = <<>>
    /\ stats = ZeroStats
    /\ current_form_naming_format = "fallback"
    /\ cur = StartCur
    /\ media_urls = <<>>
    /\ form_stats = ZeroFormStats
    /\ results = <<>>
    /\ xfer = IdleXfer
    /\ hist = ZeroHist

Init ==
    /\ \E fs \in FormLists, d \in InitialDests : RunInit(fs, d)
    /\ call = "none"
    /\ ret = "none"

(***************************************************************************)
(* run(): steps 1, 3, 4                                                    *)
(***************************************************************************)
\* authenticate_sharepoint returns or raises; a raise ends run()
Authenticate ==
    /\ pc = "auth"
    /\ \E ok \in BOOLEAN : pc' = IF ok THEN "folder" ELSE "aborted"
    /\ UNCHANGED <<forms, dest, existing_files, stats, current_form_naming_format,
                   cur, media_urls, form_stats, results, xfer, hist, call, ret>>

\* step 3: the latest upload folder is used, or a new one is created
SelectFolder ==
    /\ pc = "folder"
    /\ \E created \in BOOLEAN :
           dest' = create_sharepoint_folder(dest, <<MAIN>>, created)
    /\ pc' = "catalog"
    /\ UNCHANGED <<forms, existing_files, stats, current_form_naming_format, cur,
                   media_urls, form_stats, results, xfer, hist, call, ret>>

\* step 4: existing_files = get_existing_files_in_sharepoint(main_folder)
GetExistingFiles ==
    /\ pc = "catalog"
    /\ \E order \in Orders(FolderNames(dest, <<MAIN>>)),
          out \in [ListedPaths(dest, MAIN) -> ListingOutcomes] :
           /\ existing_files' = get_existing_files_in_sharepoint(dest, MAIN, order, out)
           /\ hist' = [hist EXCEPT
                           !.buildClean =
                               \A q \in ListedPaths(dest, MAIN) : out[q] = "ok",
                           !.builds = @ + 1,
                           !.built = get_existing_files_in_sharepoint(
                                         dest, MAIN, order, out)]
    /\ pc' = "form"
    /\ UNCHANGED <<forms, dest, stats, current_form_naming_format, cur, media_urls,
                   form_stats, results, xfer, call, ret>>

(***************************************************************************)
(* process_form_media                                                      *)
(***************************************************************************)
MEDIA_ == <<"m", "e", "d", "i", "a", "_">>

\* a variant of get_download_url that tries download_url first
get_download_url_DefaultFirst(attachment) ==
    IF attachment.download_url # "" THEN attachment.download_url
    ELSE IF attachment.download_large_url # "" THEN attachment.download_large_url
    ELSE IF attachment.download_medium_url # "" THEN attachment.download_medium_url
    ELSE ""

\* lines 314-320; "" stands for a key that is missing or whose value is falsy
get_download_url(attachment) ==
    IF attachment.download_large_url # "" THEN attachment.download_large_url
    ELSE IF attachment.download_url # "" THEN attachment.download_url
    ELSE IF attachment.download_medium_url # "" THEN attachment.download_medium_url
    ELSE ""

\* media_urls of one column: lines 514-520
Candidates(field, row_num) ==
    LET withUrl == SelectSeq(field.atts, LAMBDA att : get_download_url(att) # "") IN
    [i \in 1..Len(withUrl) |->
        [url |-> get_download_url(withUrl[i]),
         filename |-> IF withUrl[i].filename.kind = "missing"
                      THEN StrVal(MEDIA_ \o IntToStr(row_num))
                      ELSE withUrl[i].filename,
         src |-> withUrl[i].src]]

CurForm == forms[cur.form]

CurData == CurForm.data

CurRow == CurData[cur.row]

FormFolder == <<MAIN, safe_form_name(CurForm.name.s)>>

FormResult(fst, has_skipped) ==
    [processed |-> fst.processed, failed |-> fst.failed,
     skipped |-> IF has_skipped THEN fst.skipped ELSE 0, has_skipped |-> has_skipped]

\* lines 459-485: up to the submission loop
FormStart ==
    /\ pc = "form"
    /\ cur.form <= Len(forms)
    /\ IF CurData = <<>>
       THEN /\ current_form_naming_format' = "fallback"
            /\ results' = Append(results, FormResult(ZeroFormStats, TRUE))
            /\ cur' = [cur EXCEPT !.form = @ + 1]
            /\ hist' = [hist EXCEPT !.formFmt = "fallback", !.dupFmt = "none",
                                     !.dupRow = 0, !.statsAtForm = stats,
                                     !.wrote = {},
                                     !.formMedia = Append(@, 0)]
            /\ UNCHANGED <<pc, dest, form_stats>>
       ELSE LET fmt == create_filename(CurData[1], 1, TEST_JPG).fmt IN
            /\ current_form_naming_format' = fmt
            /\ hist' = [hist EXCEPT
                            !.formFmt = fmt, !.dupFmt = "none", !.dupRow = 0,
                            !.statsAtForm = stats, !.wrote = {},
                            !.formMedia = IF CurForm.name.kind # "str"
                                          THEN Append(@, 0) ELSE @]
            /\ IF CurForm.name.kind # "str"
               THEN \* re.sub raises: the except of line 573 returns a result
                    \* without 'skipped', and run() raises on reading it
                    /\ results' = Append(results, FormResult(ZeroFormStats, FALSE))
                    /\ pc' = "crashed"
                    /\ UNCHANGED <<dest, form_stats, cur>>
               ELSE /\ \E created \in BOOLEAN :
                           dest' = create_sharepoint_folder(dest, FormFolder, created)
                    /\ form_stats' = ZeroFormStats
                    /\ cur' = [cur EXCEPT !.row = 1, !.field = 1, !.media = 0]
                    /\ pc' = "field"
                    /\ UNCHANGED results
    /\ UNCHANGED <<forms, existing_files, stats, media_urls, xfer, call, ret>>

\* line 571: the submissions are exhausted
FormEnd ==
    /\ pc = "field"
    /\ cur.row > Len(CurData)
    /\ results' = Append(results, FormResult(form_stats, TRUE))
    /\ cur' = [cur EXCEPT !.form = @ + 1, !.row = 0, !.field = 0, !.media = 0]
    /\ pc' = "form"
    /\ hist' = [hist EXCEPT !.formMedia =
                    Append(@, stats.total_media - hist.statsAtForm.total_media)]
    /\ UNCHANGED <<forms, dest, existing_files, stats, current_form_naming_format,
                   media_urls, form_stats, xfer, call, ret>>

\* lines 488-495: a submission that is no dict, or whose columns are exhausted
RowEnd ==
    /\ pc = "field"
    /\ cur.row <= Len(CurData)
    /\ ~CurRow.isdict \/ cur.field > Len(CurRow.fields)
    /\ cur' = [cur EXCEPT !.row = @ + 1, !.field = 1, !.media = 0]
    /\ UNCHANGED <<pc, forms, dest, existing_files, stats,
                   current_form_naming_format, media_urls, form_stats, results,
                   xfer, hist, call, ret>>

\* lines 496-539: one column, up to the loop over its media
FieldStart ==
    /\ pc = "field"
    /\ cur.row <= Len(CurData)
    /\ CurRow.isdict
    /\ cur.field <= Len(CurRow.fields)
    /\ LET field == CurRow.fields[cur.field]
           found == Candidates(field, cur.row)
       IN IF found = <<>>
          THEN /\ cur' = [cur EXCEPT !.field = @ + 1]
               /\ UNCHANGED <<pc, dest, media_urls>>
          ELSE /\ \E created \in BOOLEAN :
                      dest' = create_sharepoint_folder(
                                  dest, Append(FormFolder, col_folder_name(field.col)),
                                  created)
               /\ media_urls' = found
               /\ cur' = [cur EXCEPT !.media = 1]
               /\ pc' = "cand"
    /\ hist' = [hist EXCEPT !.visited = @ \cup {<<cur.form, cur.row, cur.field>>}]
    /\ UNCHANGED <<forms, existing_files, stats, current_form_naming_format,
                   form_stats, results, xfer, call, ret>>

ColFolder == Append(FormFolder, col_folder_name(CurRow.fields[cur.field].col))

\* a variant of FieldError that leaves the loop over the submissions
FieldError_EndsForm ==
    /\ stats' = [stats EXCEPT !.total_media = @ + 1]
    /\ cur' = [cur EXCEPT !.row = Len(CurData) + 1, !.field = 1, !.media = 0]
    /\ pc' = "field"
    /\ hist' = [hist EXCEPT !.errs = @ \cup {[form |-> cur.form, row |-> cur.row,
                                               field |-> cur.field,
                                               fst |-> form_stats]}]
    /\ UNCHANGED <<current_form_naming_format, form_stats, xfer>>

\* lines 542-545 and 567-569: the media is counted, sanitize_filename raises,
\* and the except goes on with the next column of the submission
FieldError ==
    /\ stats' = [stats EXCEPT !.total_media = @ + 1]
    /\ cur' = [cur EXCEPT !.field = @ + 1, !.media = 0]
    /\ pc' = "field"
    /\ hist' = [hist EXCEPT !.errs = @ \cup {[form |-> cur.form, row |-> cur.row,
                                               field |-> cur.field,
                                               fst |-> form_stats]}]
    /\ UNCHANGED <<current_form_naming_format, form_stats, xfer>>

\* lines 541-558: one media of the column, up to the transfer
Candidate ==
    /\ pc = "cand"
    /\ cur.media <= Len(media_urls)
    /\ LET media == media_urls[cur.media]
           counted == [stats EXCEPT !.total_media = @ + 1]
       IN IF media.filename.kind # "str"
          THEN FieldError
          ELSE LET base_name == sanitize_filename(media.filename.s)
                   made == create_filename(CurRow, cur.row, base_name)
                   \* line 662 reads what line 546 has just stored
                   fmt == made.fmt
                   checked == existing_files # <<>>
                   dup == checked /\ is_file_already_uploaded(
                                         made.name, safe_form_name(CurForm.name.s),
                                         existing_files, fmt)
               IN /\ current_form_naming_format' = made.fmt
                  /\ IF dup
                     THEN /\ form_stats' = [form_stats EXCEPT !.skipped = @ + 1]
                          /\ stats' = [counted EXCEPT !.skipped = @ + 1]
                          /\ cur' = [cur EXCEPT !.media = @ + 1]
                          /\ hist' = [hist EXCEPT !.dupFmt = fmt, !.dupRow = cur.row]
                          /\ UNCHANGED <<pc, xfer>>
                     ELSE /\ stats' = counted
                          /\ xfer' = [IdleXfer EXCEPT !.pc = "open", !.src = media.src,
                                                      !.folder = ColFolder,
                                                      !.filename = made.name]
                          /\ hist' = [hist EXCEPT
                                          !.statsAtCall = counted,
                                          !.dupFmt = IF checked THEN fmt ELSE @,
                                          !.dupRow = IF checked THEN cur.row ELSE @]
                          /\ pc' = "xfer"
                          /\ UNCHANGED <<form_stats, cur>>
    /\ UNCHANGED <<forms, dest, existing_files, media_urls, results, call, ret>>

\* the media of the column are exhausted
FieldEnd ==
    /\ pc = "cand"
    /\ cur.media > Len(media_urls)
    /\ cur' = [cur EXCEPT !.field = @ + 1, !.media = 0]
    /\ pc' = "field"
    /\ UNCHANGED <<forms, dest, existing_files, stats, current_form_naming_format,
                   media_urls, form_stats, results, xfer, hist, call, ret>>

\* a variant of AfterTransfer that lists the destination again
AfterTransfer_Refresh ==
    /\ pc = "xfer"
    /\ xfer.pc = "ret"
    /\ form_stats' = IF xfer.success
                     THEN [form_stats EXCEPT !.processed = @ + 1]
                     ELSE [form_stats EXCEPT !.failed = @ + 1]
    /\ cur' = [cur EXCEPT !.media = @ + 1]
    /\ xfer' = IdleXfer
    /\ pc' = "cand"
    /\ existing_files' =
           get_existing_files_in_sharepoint(
               dest, MAIN,
               CHOOSE o \in Orders(FolderNames(dest, <<MAIN>>)) : TRUE,
               [q \in ListedPaths(dest, MAIN) |-> "ok"])
    /\ UNCHANGED <<forms, dest, stats, current_form_naming_format,
                   media_urls, results, hist, call, ret>>

\* lines 560-565: the transfer has returned
AfterTransfer ==
    /\ pc = "xfer"
    /\ xfer.pc = "ret"
    /\ form_stats' = IF xfer.success
                     THEN [form_stats EXCEPT !.processed = @ + 1]
                     ELSE [form_stats EXCEPT !.failed = @ + 1]
    /\ cur' = [cur EXCEPT !.media = @ + 1]
    /\ xfer' = IdleXfer
    /\ pc' = "cand"
    /\ hist' = [hist EXCEPT !.wrote = IF xfer.success
                                      THEN @ \cup {Append(xfer.folder, xfer.filename)}
                                      ELSE @]
    /\ UNCHANGED <<forms, dest, existing_files, stats, current_form_naming_format,
                   media_urls, results, call, ret>>

\* run(), after the loop over the forms: verification and summary
Finish ==
    /\ pc = "form"
    /\ cur.form > Len(forms)
    /\ pc' = "done"
    /\ UNCHANGED <<forms, dest, existing_files, stats, current_form_naming_format,
                   cur, media_urls, form_stats, results, xfer, hist, call, ret>>

(***************************************************************************)
(* stream_media_to_sharepoint, one request per step.  xfer.reqs logs the   *)
(* requests sent to the destination during the call.                       *)
(***************************************************************************)
\* status: "ok" (a status the code accepts), "refused" (another status) or
\* "raised" (the request raised)
Req(op, offset, length, total, status) ==
    [op |-> op, offset |-> offset, length |-> length, total |-> total,
     status |-> status]

\* the request raises instead of answering
Raised == 0

Answer(status, accepted) ==
    IF status = Raised THEN "raised"
    ELSE IF status \in accepted THEN "ok" ELSE "refused"

\* the except of line 230, and the two refusals of lines 171-174, 198-201
Failed(x) ==
    /\ stats' = [stats EXCEPT !.failed = @ + 1]
    /\ xfer' = [x EXCEPT !.pc = "ret", !.success = FALSE]
    /\ UNCHANGED dest

\* a variant of Uploaded that leaves self.stats alone
Uploaded_Uncounted(x, credited) ==
    /\ xfer' = [x EXCEPT !.pc = "ret", !.success = TRUE]
    /\ dest' = WriteFile(dest, x.folder, x.filename)
    /\ UNCHANGED stats

\* lines 166-170 and 193-197
Uploaded(x, credited) ==
    /\ stats' = [stats EXCEPT !.transferred = @ + 1, !.total_size = @ + credited]
    /\ xfer' = [x EXCEPT !.pc = "ret", !.success = TRUE]
    /\ dest' = WriteFile(dest, x.folder, x.filename)

Min(a, b) == IF a < b THEN a ELSE b

\* lines 148-161: the source is opened and the path is chosen
OpenSource ==
    /\ pc = "xfer"
    /\ xfer.pc = "open"
    /\ \/ Failed([xfer EXCEPT !.src_error = TRUE])   \* the GET raises
       \/ /\ xfer' = [xfer EXCEPT
                          !.content_length = xfer.src.length,
                          !.pc = IF IsSmallFile(xfer.src.length) THEN "single"
                                 ELSE "session"]
          /\ UNCHANGED <<stats, dest>>
    /\ UNCHANGED <<pc, forms, existing_files, current_form_naming_format, cur,
                   media_urls, form_stats, results, hist, call, ret>>

\* one PUT of the whole content: lines 163-174 (pc "single") and 190-201
\* (pc "fallback")
PutWhole(at) ==
    /\ pc = "xfer"
    /\ xfer.pc = at
    /\ \/ Failed([xfer EXCEPT !.src_error = TRUE])   \* reading the content raises
       \/ \E status \in UploadOK \cup {RefusedStatus, Raised} :
              LET sent == [xfer EXCEPT !.reqs = Append(@,
                               Req("put", 0, xfer.src.body, xfer.src.body,
                                   Answer(status, UploadOK)))]
              IN IF status # Raised /\ status \in UploadOK
                 THEN Uploaded(sent, xfer.src.body)
                 ELSE Failed(sent)
    /\ UNCHANGED <<pc, forms, existing_files, current_form_naming_format, cur,
                   media_urls, form_stats, results, hist, call, ret>>

DirectUpload == PutWhole("single")

FallbackUpload == PutWhole("fallback")

\* a variant of CreateSession that gives up on a refused session as it does on
\* a raised one
CreateSession_NoFallback ==
    /\ pc = "xfer"
    /\ xfer.pc = "session"
    /\ \E status \in SessionOK \cup {RefusedStatus, Raised}, has_url \in BOOLEAN :
           LET sent == [xfer EXCEPT !.reqs = Append(@,
                            Req("session", 0, 0, 0, Answer(status, SessionOK)))]
           IN IF status = Raised \/ status \notin SessionOK \/ ~has_url
              THEN Failed(sent)
              ELSE /\ xfer' = [sent EXCEPT
                                   !.pc = "chunks",
                                   !.file_size = IF xfer.content_length # NoLength
                                                 THEN xfer.content_length ELSE 0,
                                   !.offset = 0,
                                   !.remaining = xfer.src.body]
                   /\ UNCHANGED <<stats, dest>>
    /\ UNCHANGED <<pc, forms, existing_files, current_form_naming_format, cur,
                   media_urls, form_stats, results, hist, call, ret>>

\* lines 179-207: createUploadSession
CreateSession ==
    /\ pc = "xfer"
    /\ xfer.pc = "session"
    /\ \E status \in SessionOK \cup {RefusedStatus, Raised}, has_url \in BOOLEAN :
           LET sent == [xfer EXCEPT !.reqs = Append(@,
                            Req("session", 0, 0, 0, Answer(status, SessionOK)))]
           IN IF status = Raised THEN Failed(sent)
              ELSE IF status \notin SessionOK
              THEN /\ xfer' = [sent EXCEPT !.pc = "fallback"]
                   /\ UNCHANGED <<stats, dest>>
              ELSE IF ~has_url THEN Failed(sent)    \* no 'uploadUrl' in the answer
              ELSE /\ xfer' = [sent EXCEPT
                                   !.pc = "chunks",
                                   !.file_size = IF xfer.content_length # NoLength
                                                 THEN xfer.content_length ELSE 0,
                                   !.offset = 0,
                                   !.remaining = xfer.src.body]
                   /\ UNCHANGED <<stats, dest>>
    /\ UNCHANGED <<pc, forms, existing_files, current_form_naming_format, cur,
                   media_urls, form_stats, results, hist, call, ret>>

\* a variant of UploadChunk that goes on with the next chunk whatever the
\* answer to this one
UploadChunk_KeepGoing ==
    /\ pc = "xfer"
    /\ xfer.pc = "chunks"
    /\ xfer.remaining > 0
    /\ LET chunk_length == Min(chunk_size, xfer.remaining) IN
       \E status \in ChunkOK \cup {RefusedStatus} :
           /\ xfer' = [xfer EXCEPT
                           !.reqs = Append(@, Req("chunk", xfer.offset, chunk_length,
                                                  xfer.file_size,
                                                  Answer(status, ChunkOK))),
                           !.offset = @ + chunk_length,
                           !.remaining = @ - chunk_length]
           /\ UNCHANGED <<stats, dest>>
    /\ UNCHANGED <<pc, forms, existing_files, current_form_naming_format, cur,
                   media_urls, form_stats, results, hist, call, ret>>

\* lines 209-223: one chunk
UploadChunk ==
    /\ pc = "xfer"
    /\ xfer.pc = "chunks"
    /\ xfer.remaining > 0
    /\ LET chunk_length == Min(chunk_size, xfer.remaining) IN
       \/ Failed([xfer EXCEPT !.src_error = TRUE])   \* reading the source raises
       \/ \E status \in ChunkOK \cup {RefusedStatus, Raised} :
              LET sent == [xfer EXCEPT !.reqs = Append(@,
                               Req("chunk", xfer.offset, chunk_length,
                                   xfer.file_size, Answer(status, ChunkOK)))]
              IN IF status # Raised /\ status \in ChunkOK
                 THEN /\ xfer' = [sent EXCEPT !.offset = @ + chunk_length,
                                              !.remaining = @ - chunk_length]
                      /\ UNCHANGED <<stats, dest>>
                 ELSE Failed(sent)
    /\ UNCHANGED <<pc, forms, existing_files, current_form_naming_format, cur,
                   media_urls, form_stats, results, hist, call, ret>>

\* lines 225-228: the source is exhausted
ChunksDone ==
    /\ pc = "xfer"
    /\ xfer.pc = "chunks"
    /\ xfer.remaining = 0
    /\ Uploaded(xfer, xfer.file_size)
    /\ UNCHANGED <<pc, forms, existing_files, current_form_naming_format, cur,
                   media_urls, form_stats, results, hist, call, ret>>

Transfer ==
    \/ OpenSource
    \/ DirectUpload
    \/ FallbackUpload
    \/ CreateSession
    \/ UploadChunk
    \/ ChunksDone

Next ==
    \/ Authenticate
    \/ SelectFolder
    \/ GetExistingFiles
    \/ FormStart
    \/ FieldStart
    \/ Candidate
    \/ Transfer
    \/ AfterTransfer
    \/ FieldEnd
    \/ RowEnd
    \/ FormEnd
    \/ Finish

Spec == Init /\ [][Next]_vars

(***************************************************************************)
(* Properties of stream_media_to_sharepoint and of the statistics.         *)
(***************************************************************************)
\* the requests the transfer in progress has sent to the destination
Sent == xfer.reqs

SentOps(op) == {i \in 1..Len(Sent) : Sent[i].op = op}

\* the source of the transfer in progress reports a length below 4 MiB
ReportsSmall == xfer.src.length # NoLength /\ xfer.src.length < 4194304

Returned == pc = "xfer" /\ xfer.pc = "ret"

\* C4: a transfer takes the single-shot path (one write of the whole content,
\* no upload session) exactly when the source reports a content length and
\* that length is below 4 MiB (4194304 bytes); in every other case (length
\* missing, or at or above the limit) the first request it sends creates a
\* chunked upload session.
C4_PathBySize ==
    pc = "xfer" /\ Sent # <<>> =>
        IF ReportsSmall
        THEN Len(Sent) = 1 /\ Sent[1].op = "put" /\ Sent[1].length = xfer.src.body
        ELSE Sent[1].op = "session"

\* a file one byte below the limit has been written with one PUT
C4_Witness ==
    /\ Returned
    /\ xfer.success
    /\ xfer.src.length = 4194304 - 1
    /\ Len(Sent) = 1
    /\ Sent[1].op = "put"

\* C5: during a chunked transfer, the first chunk write whose answer is not an
\* accepted status ends the transfer: no later request is sent, the outcome is
\* failed, stats.failed has grown by one, and stats.transferred and
\* stats.total_size are what they were at the call, also when earlier chunks
\* were accepted.
C5_ChunkFailureEnds ==
    pc = "xfer" =>
        \A i \in SentOps("chunk") :
            Sent[i].status # "ok" =>
                /\ i = Len(Sent)
                /\ xfer.pc = "ret"
                /\ ~xfer.success
                /\ stats.failed = hist.statsAtCall.failed + 1
                /\ stats.transferred = hist.statsAtCall.transferred
                /\ stats.total_size = hist.statsAtCall.total_size

\* a chunk has been refused after two chunks were accepted
C5_Witness ==
    /\ Returned
    /\ Len(Sent) >= 4
    /\ Sent[Len(Sent)].op = "chunk"
    /\ Sent[Len(Sent)].status = "refused"
    /\ Sent[Len(Sent) - 1].op = "chunk"
    /\ Sent[Len(Sent) - 1].status = "ok"
    /\ Sent[Len(Sent)].offset = 2 * chunk_size

\* the session request of the transfer in progress ended as the given statuses
SessionEnded(statuses) ==
    \E i \in SentOps("session") : Sent[i].status \in statuses

\* the transfer has fallen back: one PUT of the whole content follows the
\* session request, nothing else was sent, and the PUT decides the outcome
FellBack ==
    /\ Len(Sent) = 2
    /\ Sent[2].op = "put"
    /\ Sent[2].length = xfer.src.body
    /\ xfer.success <=> Sent[2].status = "ok"

\* C6 as stated: whenever the creation of the upload session fails, by a
\* non-success status or by a raised error, the transfer does not fail
\* outright: it writes the whole content with one single-shot PUT, and it
\* succeeds exactly when that PUT succeeds.
C6_FallbackOnAnyFailure ==
    Returned /\ SessionEnded({"refused", "raised"}) /\ ~xfer.src_error => FellBack

\* C6, amended: when the session request answers with a status other than 200,
\* the transfer falls back whatever the size: no chunk is written, one
\* single-shot PUT of the whole content is sent (unless reading the content
\* raises), and the transfer succeeds exactly when that PUT succeeds.  When
\* the session request raises, the transfer fails outright: nothing else is
\* sent, nothing is written and stats.failed grows by one.
C6_FallbackOnStatus ==
    pc = "xfer" =>
        /\ SessionEnded({"refused"}) =>
               /\ SentOps("chunk") = {}
               /\ Len(Sent) <= 2
               /\ xfer.pc = "ret" /\ ~xfer.src_error => FellBack
               /\ xfer.pc = "ret" /\ xfer.src_error =>
                      Len(Sent) = 1 /\ ~xfer.success
        /\ SessionEnded({"raised"}) =>
               /\ Len(Sent) = 1
               /\ xfer.pc = "ret"
               /\ ~xfer.success
               /\ stats.failed = hist.statsAtCall.failed + 1
               /\ stats.transferred = hist.statsAtCall.transferred

\* a file of 4 MiB whose session was refused has been written by the fallback
C6_Witness ==
    /\ Returned
    /\ SessionEnded({"refused"})
    /\ xfer.src.length >= 4194304
    /\ FellBack
    /\ xfer.success

RECURSIVE SumOf(_, _)
SumOf(rs, key) ==
    IF rs = <<>> THEN 0 ELSE rs[1][key] + SumOf(Tail(rs), key)

\* C7: every call of the transfer adds exactly one to exactly one of
\* stats.transferred and stats.failed, the one its outcome names, and nothing
\* else adds to them: between forms, stats.transferred is the sum of the
\* forms' processed counts and stats.failed the sum of their failed counts.
C7_CountersMatchOutcomes ==
    /\ pc = "xfer" /\ xfer.pc # "ret" =>
           /\ stats.transferred = hist.statsAtCall.transferred
           /\ stats.failed = hist.statsAtCall.failed
    /\ Returned =>
           IF xfer.success
           THEN /\ stats.transferred = hist.statsAtCall.transferred + 1
                /\ stats.failed = hist.statsAtCall.failed
           ELSE /\ stats.transferred = hist.statsAtCall.transferred
                /\ stats.failed = hist.statsAtCall.failed + 1
    /\ pc \in {"form", "done", "crashed"} =>
           /\ stats.transferred = SumOf(results, "processed")
           /\ stats.failed = SumOf(results, "failed")
    /\ pc \in {"field", "cand"} =>
           /\ stats.transferred = SumOf(results, "processed") + form_stats.processed
           /\ stats.failed = SumOf(results, "failed") + form_stats.failed

\* two forms are done, with a transfer that succeeded and one that failed
C7_Witness ==
    /\ pc = "done"
    /\ Len(results) = 2
    /\ stats.transferred >= 1
    /\ stats.failed >= 1
    /\ results[1].processed + results[1].failed >= 1
    /\ results[2].processed + results[2].failed >= 1

\* C9: the naming scheme a duplicate check uses is the one found on the
\* form's first submission: within one form, every duplicate check uses the
\* scheme that was decided when the form began.
C9_SchemeFixedPerForm ==
    pc \in {"field", "cand", "xfer"} /\ hist.dupFmt # "none" =>
        hist.dupFmt = hist.formFmt

(***************************************************************************)
(* is_file_already_uploaded applied on its own: the catalog is in          *)
(* existing_files, the format in current_form_naming_format, and `call`    *)
(* holds the file name with the parts it was put together from.            *)
(***************************************************************************)
NoRet == [done |-> FALSE, value |-> "none"]

\* run() is not under way
Idle(at) ==
    /\ pc = at
    /\ forms = <<>>
    /\ stats = ZeroStats
    /\ cur = StartCur
    /\ media_urls = <<>>
    /\ form_stats = ZeroFormStats
    /\ results = <<>>
    /\ xfer = IdleXfer
    /\ hist = ZeroHist
    /\ ret = NoRet

DATE_2 == <<"2", "0", "2", "4", "-", "0", "1", "-", "0", "2">>

TYPE_2 == <<"F", "o", "o", "d", "_", "D", "r", "i", "n", "k">>

DOT_B_C == <<".", "b", "_", "c">>

A_JPG == <<"a", ".", "j", "p", "g">>

B_JPG == <<"b", ".", "j", "p", "g">>


\* f"{date}_{category}_{row}{ext}"
RichName(date, category, row, ext) ==
    date \o <<"_">> \o category \o <<"_">> \o IntToStr(row) \o ext

DupRows == {1, 11}

\* a file name with its parts; `row` is 0 and `ext` empty when the name is not
\* put together from them
Named(filename, shape, row, ext) ==
    [filename |-> filename, shape |-> shape, row |-> row, ext |-> ext]

RichNames ==
    {Named(RichName(p[1], p[2], row, ext), "rich", row, ext) :
        p \in {<<DATE_1, TYPE_1>>, <<DATE_2, TYPE_2>>},
        row \in DupRows, ext \in {DOT_JPG, DOT_B_C}}

PlainNames ==
    {Named(FallbackName(row, base), "plain", row, <<>>) :
        row \in DupRows, base \in {A_JPG, B_JPG}}

ODD_NO_SEP == <<"r", "o", "w", "1">>

ODD_NO_NUM == <<"r", "o", "w", "X", "_", "a", ".", "j", "p", "g">>

ODD_NO_ROW == <<"p", "h", "o", "t", "o", ".", "j", "p", "g">>

ODD_EMPTY_NUM == <<"r", "o", "w", "_", "a", ".", "j", "p", "g">>


\* names that hold no row{N}_ token
OddNames ==
    {Named(n, "odd", 0, <<>>) : n \in {ODD_NO_SEP, ODD_NO_NUM, ODD_NO_ROW, ODD_EMPTY_NUM}}

DupNames == RichNames \cup PlainNames \cup OddNames

\* files cataloged for one form folder
MaxCatalogFiles == 2

CatalogSets ==
    {S \in SUBSET {n.filename : n \in DupNames} : Cardinality(S) <= MaxCatalogFiles}

OTHER_FORM == <<"O", "t", "h", "e", "r">>

\* the catalogs: empty, holding the form's folder, or holding another folder
DupCatalogs ==
    {<<>>}
    \cup {[f \in {FORM_1_FOLDER} |-> S] : S \in CatalogSets}
    \cup {[f \in {OTHER_FORM} |-> S] : S \in CatalogSets}

InitDup ==
    /\ Idle("dup")
    /\ dest = {}
    /\ existing_files \in DupCatalogs
    /\ current_form_naming_format \in {"custom", "fallback"}
    /\ call \in DupNames

\* line 551: the call made by process_form_media
CheckDuplicate ==
    /\ pc = "dup"
    /\ ~ret.done
    /\ ret' = [done |-> TRUE,
               value |-> is_file_already_uploaded(
                             call.filename, FORM_1_FOLDER, existing_files,
                             current_form_naming_format)]
    /\ UNCHANGED <<runVars, current_form_naming_format, call>>

SpecDup == InitDup /\ [][CheckDuplicate]_vars

\* what is cataloged for the form of the call
Cataloged ==
    IF FORM_1_FOLDER \in DOMAIN existing_files
    THEN existing_files[FORM_1_FOLDER] ELSE {}

\* C2: the duplicate check answers true for every file name that is in the
\* form's cataloged set as it stands, under either naming format; and under
\* the custom (rich) format it answers true for every name
\* {date}_{category}_{row}{ext} for which some cataloged name of the form ends
\* with _{row}{ext}, whatever that name's date and category.
C2_ExactOrRowSuffix ==
    pc = "dup" /\ ret.done =>
        /\ call.filename \in Cataloged => ret.value
        /\ /\ current_form_naming_format = "custom"
           /\ call.shape = "rich"
           /\ \E f \in Cataloged :
                  EndsWith(f, <<"_">> \o IntToStr(call.row) \o call.ext)
           => ret.value

\* a rich name is found by its row and extension under another date and
\* category, without being cataloged itself
C2_Witness ==
    /\ pc = "dup"
    /\ ret.done
    /\ ret.value
    /\ current_form_naming_format = "custom"
    /\ call.shape = "rich"
    /\ call.filename \notin Cataloged
    /\ \E f \in Cataloged :
           /\ EndsWith(f, <<"_">> \o IntToStr(call.row) \o call.ext)
           /\ SubSeq(f, 1, 10) # SubSeq(call.filename, 1, 10)

\* the leading row{N}_ token of a name: "row", one digit or more, "_"
RowToken(name) ==
    LET i == IndexOf(name, "_") IN
    IF /\ StartsWith(name, <<"r", "o", "w">>)
       /\ i > 4
       /\ \A k \in 4..(i - 1) : name[k] \in Digits
    THEN SubSeq(name, 1, i) ELSE <<>>

BeforeUnderscore(name) ==
    IF Contains(name, "_") THEN SubSeq(name, 1, IndexOf(name, "_") - 1) ELSE name

DATE_US == <<"0", "6", "/", "2", "6", "/", "2", "0", "2", "5">>

DATE_EU == <<"2", "6", "/", "0", "6", "/", "2", "0", "2", "5">>

DATE_TIME ==
    <<"2", "0", "2", "5", "-", "0", "6", "-", "2", "6", " ", "1", "0", ":", "3", "0",
      ":", "0", "0">>

DATE_ISO ==
    <<"2", "0", "2", "5", "-", "0", "6", "-", "2", "6", "T", "1", "0", ":", "3", "0",
      ":", "0", "0">>

DATE_ISO_FRAC ==
    <<"2", "0", "2", "5", "-", "0", "6", "-", "2", "6", "T", "1", "0", ":", "3", "0",
      ":", "0", "0", ".", "1", "2", "3", "4", "5", "6">>

DATE_BLANKS == <<" ", "2", "0", "2", "5", "-", "0", "6", "-", "2", "6", " ">>

DATE_INSIDE == <<"o", "n", " ", "2", "0", "2", "5", "-", "0", "6", "-", "2", "6", "!">>

DATE_NO_DAY == <<"2", "0", "2", "5", "-", "0", "2", "-", "3", "0">>

DATE_WORDS == <<"2", "6", " ", "J", "u", "n", "e">>

DATE_SHORT == <<"2", "0", "2", "5", "-", "6", "-", "6">>

TYPE_MIXED == <<"F", "o", "o", "d", "/", "D", "r", "i", "n", "k", " ", "x">>

TYPE_SIGNS == <<"!", "!", "!">>

RAW_PLAIN == <<"a", ".", "j", "p", "g">>

RAW_UNSAFE ==
    <<"m", "y", " ", "p", "h", "o", "t", "o", "(", "1", ")", ".", "p", "n", "g">>

RAW_NO_EXT == <<"s", "c", "a", "n">>

RAW_TWO_EXT == <<"x", ".", "t", "a", "r", ".", "g", "z">>

NameDates ==
    {StrVal(d) : d \in {DATE_1, DATE_US, DATE_EU, DATE_TIME, DATE_ISO, DATE_ISO_FRAC,
                        DATE_BLANKS, DATE_INSIDE, DATE_NO_DAY, DATE_WORDS,
                        DATE_SHORT, <<>>}}
    \cup {MissingVal, OtherVal}

NameTypes ==
    {StrVal(c) : c \in {TYPE_1, TYPE_2, TYPE_MIXED, TYPE_SIGNS, <<>>}}
    \cup {MissingVal, OtherVal}

NameRows == {1, 12}

NameCalls ==
    {[row_data |-> rd, row_num |-> n, filename |-> raw] :
        rd \in {Submission(TRUE, d, c, <<>>) : d \in NameDates, c \in NameTypes}
               \cup {NonDictRow},
        n \in NameRows,
        raw \in {RAW_PLAIN, RAW_UNSAFE, RAW_NO_EXT, RAW_TWO_EXT}}

InitName ==
    /\ Idle("name")
    /\ dest = {}
    /\ existing_files = <<>>
    /\ current_form_naming_format \in {"custom", "fallback"}
    /\ call \in NameCalls

\* lines 545-546
MakeFilename ==
    /\ pc = "name"
    /\ ~ret.done
    /\ LET base_name == sanitize_filename(call.filename)
           made == create_filename(call.row_data, call.row_num, base_name)
       IN /\ ret' = [done |-> TRUE, value |-> made.name]
          /\ current_form_naming_format' = made.fmt
    /\ UNCHANGED <<runVars, call>>

SpecName == InitName /\ [][MakeFilename]_vars

\* YYYY-MM-DD
IsYMD(s) ==
    /\ Len(s) = 10
    /\ \A k \in {1, 2, 3, 4, 6, 7, 9, 10} : s[k] \in Digits
    /\ s[5] = "-"
    /\ s[8] = "-"

NAME_12 ==
    <<"2", "0", "2", "5", "-", "0", "6", "-", "2", "6", "_", "F", "o", "o", "d", "_",
      "D", "r", "i", "n", "k", "_", "x", "_", "1", "2", ".", "p", "n", "g">>

F_A == <<"A">>

F_B == <<"B">>

F_E == <<"E">>

\* the files a destination may hold, by path
BuildFilePool ==
    { <<MAIN, F_A, <<"f", "1">>>>,
      <<MAIN, F_A, <<"s">>, <<"f", "2">>>>,
      <<MAIN, F_A, <<"s", "2">>, <<"f", "1">>>>,
      <<MAIN, F_A, <<"s">>, <<"t">>, <<"f", "3">>>>,
      <<MAIN, F_B, <<"f", "4">>>>,
      <<MAIN, F_B, <<"u">>, <<"f", "2">>>>,
      <<MAIN, <<"x">>>> }

\* files per destination
MaxBuildFiles == 2

DestOf(paths, empty_folder) ==
    {File(q) : q \in paths}
    \cup UNION {Ancestors(q) : q \in paths}
    \cup (IF empty_folder THEN {Folder(<<MAIN>>), Folder(<<MAIN, F_E>>)} ELSE {})

BuildDests ==
    {DestOf(S, e) : S \in {T \in SUBSET BuildFilePool : Cardinality(T) <= MaxBuildFiles},
                    e \in BOOLEAN}

InitBuild ==
    /\ Idle("build")
    /\ dest \in BuildDests
    /\ existing_files = <<>>
    /\ current_form_naming_format = "fallback"
    /\ \E order \in Orders(FolderNames(dest, <<MAIN>>)),
          out \in [ListedPaths(dest, MAIN) -> ListingOutcomes] :
           /\ Exists(dest, <<MAIN>>) \/ out[<<MAIN>>] # "ok"
           /\ call = [order |-> order, out |-> out]

\* line 855: the call made by run()
BuildCatalog ==
    /\ pc = "build"
    /\ ~ret.done
    /\ ret' = [done |-> TRUE,
               value |-> get_existing_files_in_sharepoint(
                             dest, MAIN, call.order, call.out)]
    /\ UNCHANGED <<runVars, current_form_naming_format, call>>

SpecBuild == InitBuild /\ [][BuildCatalog]_vars

\* the listing of a path has not failed
Listed(path) == call.out[path] = "ok"

\* the files directly in a form folder and directly in its sub-folders, a
\* folder whose listing failed giving none
FlatFiles(form_name) ==
    {Last(it.path) : it \in
        {f \in dest :
            /\ ~f.folder
            /\ Listed(<<MAIN, form_name>>)
            /\ \/ /\ Len(f.path) = 3
                  /\ SubSeq(f.path, 1, 2) = <<MAIN, form_name>>
               \/ /\ Len(f.path) = 4
                  /\ SubSeq(f.path, 1, 2) = <<MAIN, form_name>>
                  /\ Listed(SubSeq(f.path, 1, 3))}}

\* C10: the build returns, for every form folder listed directly under the
\* main folder, the flat set of the files directly in that folder and directly
\* in each of its sub-folders, nothing deeper; a listing of a form folder or
\* sub-folder that fails gives no files for that folder and does not stop the
\* enumeration: every other form folder and sub-folder is still cataloged.
C10_EveryFolderCataloged ==
    pc = "build" /\ ret.done /\ Listed(<<MAIN>>) =>
        /\ DOMAIN ret.value = FolderNames(dest, <<MAIN>>)
        /\ \A form_name \in FolderNames(dest, <<MAIN>>) :
               ret.value[form_name] = FlatFiles(form_name)

(***************************************************************************)
(* A second run: the program is started again on the same forms and the    *)
(* same main folder, against the destination the first run has left.       *)
(***************************************************************************)
\* run() entered anew: a new DirectMediaTransfer, the destination as it is
StartRerun ==
    /\ pc = "done"
    /\ hist.run = 1
    /\ pc' = "auth"
    /\ existing_files' = <<>>
    /\ stats' = ZeroStats
    /\ current_form_naming_format' = "fallback"
    /\ cur' = StartCur
    /\ media_urls' = <<>>
    /\ form_stats' = ZeroFormStats
    /\ results' = <<>>
    /\ hist' = [ZeroHist EXCEPT !.run = 2, !.prevResults = results,
                                !.prevMedia = hist.formMedia]
    /\ UNCHANGED <<forms, dest, xfer, call, ret>>

NextRerun == Next \/ StartRerun

SpecRerun == Init /\ [][NextRerun]_vars

\* the first run transferred every attachment of the i-th form
AllTransferred(i) ==
    /\ i <= Len(hist.prevResults)
    /\ hist.prevResults[i].processed = hist.prevMedia[i]
    /\ hist.prevResults[i].failed = 0
    /\ hist.prevResults[i].skipped = 0

\* C1: when a first run has transferred every attachment of a form and the
\* catalog is then rebuilt from the destination it left (same main folder,
\* same submissions, every listing answered), a second run over that form
\* attempts no transfer: every candidate is skipped, the form's and the run's
\* skipped counts grow by one per candidate, and processed, failed,
\* transferred and total_size stay as they were.
C1_RerunSkipsAll ==
    hist.run = 2 /\ hist.buildClean =>
        /\ pc \in {"field", "cand", "xfer"} /\ AllTransferred(cur.form) =>
               /\ pc # "xfer"
               /\ form_stats.processed = 0
               /\ form_stats.failed = 0
               /\ form_stats.skipped = stats.total_media - hist.statsAtForm.total_media
               /\ stats.skipped = hist.statsAtForm.skipped + form_stats.skipped
               /\ stats.transferred = hist.statsAtForm.transferred
               /\ stats.failed = hist.statsAtForm.failed
               /\ stats.total_size = hist.statsAtForm.total_size
        /\ \A i \in 1..Len(results) :
               AllTransferred(i) =>
                   /\ results[i].processed = 0
                   /\ results[i].failed = 0
                   /\ results[i].skipped = hist.prevMedia[i]
                   /\ hist.formMedia[i] = hist.prevMedia[i]

\* the second run has skipped the two attachments the first run transferred
C1_Witness ==
    /\ hist.run = 2
    /\ hist.buildClean
    /\ pc = "done"
    /\ AllTransferred(1)
    /\ hist.prevMedia[1] = 2
    /\ results[1].skipped = 2
    /\ stats.skipped = 2
    /\ stats.transferred = 0

(***************************************************************************)
(* Properties of run() and process_form_media                              *)
(***************************************************************************)
\* the names of the files the destination holds under the main folder
WrittenNames == {Last(it.path) : it \in {f \in dest : ~f.folder}}

CatalogedNames == UNION {existing_files[f] : f \in DOMAIN existing_files}

\* C11: in a run the catalog is built exactly once, before the first transfer
\* attempt, and never changes afterwards: until it is built nothing has been
\* counted or transferred, and from then on existing_files is the catalog as
\* built, whatever process_form_media, the duplicate check and the transfers
\* do; a file written during the run is not added to it.
C11_CatalogBuiltOnce ==
    /\ pc \in {"auth", "folder", "catalog", "aborted"} =>
           /\ hist.builds = 0
           /\ existing_files = <<>>
           /\ stats = ZeroStats
           /\ xfer = IdleXfer
    /\ pc \in {"form", "field", "cand", "xfer", "done", "crashed"} =>
           /\ hist.builds = 1
           /\ existing_files = hist.built

\* the run has ended, and a file it wrote is not in the catalog
C11_Witness ==
    /\ pc = "done"
    /\ hist.run = 1
    /\ stats.transferred >= 1
    /\ existing_files = hist.built
    /\ WrittenNames \ CatalogedNames # {}

(***************************************************************************)
(* The result of process_form_media and the end of run().                  *)
(***************************************************************************)
\* C12: every result process_form_media returns carries the three counters
\* processed, failed and skipped, on the no-submissions path and on the path
\* of the except of line 573 as on the normal path.
C12_AllCountersDefined ==
    \A i \in 1..Len(results) : results[i].has_skipped

\* run() ended without processing every selected form and printing the summary
RunEndedEarly == pc \in {"aborted", "crashed"}

\* authenticate_sharepoint returned False (run(), line 789)
AuthFailed == pc = "aborted"

\* C13: a run ends before every selected form is processed and the summary is
\* printed only when authentication failed (a cancellation by the user is not
\* an event of this model), and after an authentication failure nothing is
\* transferred, counted or written.
C13_EndsEarlyOnlyOnAuthFailure ==
    /\ RunEndedEarly => AuthFailed
    /\ AuthFailed => /\ stats = ZeroStats
                     /\ xfer = IdleXfer
                     /\ results = <<>>
                     /\ dest \in InitialDests

(***************************************************************************)
(* SpecField: runs over one form whose submissions hold a column that      *)
(* raises, before, between and after columns that transfer.                *)
(***************************************************************************)
ErrFieldLists ==
    { <<Field(COL_DOC, <<AttC>>), Field(COL_PHOTO, <<AttBad, AttA>>),
        Field(COL_NOTE, <<AttB>>)>>,
      <<Field(COL_PHOTO, <<AttA, AttBad>>), Field(COL_DOC, <<AttB>>)>>,
      <<Field(COL_PHOTO, <<AttA>>)>> }

ErrRows ==
    {RichRow(f) : f \in ErrFieldLists} \cup {PlainRow(f) : f \in ErrFieldLists}
    \cup {NonDictRow}

ErrDataSets == {<<a, b>> : a \in ErrRows, b \in ErrRows}

InitField ==
    /\ \E d \in ErrDataSets, dst \in InitialDests :
           RunInit(<<Form(FormName(1), d)>>, dst)
    /\ call = "none"
    /\ ret = "none"

SpecField == InitField /\ [][Next]_vars

\* the counters of a are at least those of b
AtLeast(a, b) ==
    /\ a.processed >= b.processed
    /\ a.failed >= b.failed
    /\ a.skipped >= b.skipped

\* the columns of the form's dict submissions that come after column (row, field)
ColumnsAfter(data, row, field) ==
    UNION {{<<r, f>> : f \in {g \in 1..Len(data[r].fields) : r > row \/ g > field}} :
              r \in {q \in row..Len(data) : data[q].isdict}}

\* C14: a column whose processing raises never aborts the form: the counters
\* of the form never fall below what they were when the column raised, and
\* when process_form_media returns, every later column of that submission and
\* every column of every later submission has been processed, and the result
\* carries at least the counts accumulated before the error.
C14_BadFieldNeverAborts ==
    \A e \in hist.errs :
        /\ cur.form = e.form /\ pc \in {"field", "cand", "xfer"} =>
               AtLeast(form_stats, e.fst)
        /\ Len(results) >= e.form =>
               /\ results[e.form].has_skipped
               /\ AtLeast(results[e.form], e.fst)
               /\ \A c \in ColumnsAfter(forms[e.form].data, e.row, e.field) :
                      <<e.form, c[1], c[2]>> \in hist.visited

\* a column raised after the form had transferred and skipped or failed media,
\* a later column of the same submission and a later submission were processed
\* and transferred more, and the form has returned
C14_Witness ==
    /\ pc = "done"
    /\ \E e \in hist.errs :
           /\ e.row = 1
           /\ e.fst.processed >= 1
           /\ ColumnsAfter(forms[e.form].data, e.row, e.field) # {}
           /\ \E c \in ColumnsAfter(forms[e.form].data, e.row, e.field) : c[1] = 2
           /\ \E c \in ColumnsAfter(forms[e.form].data, e.row, e.field) : c[1] = 1
           /\ results[e.form].processed > e.fst.processed + 1

(***************************************************************************)
(* SpecFolder: create_sharepoint_folder called twice with one path on a    *)
(* destination drawn from the folder trees below.  call holds the path,    *)
(* ret.value one record per call made.                                     *)
(***************************************************************************)
FolderPathPool ==
    { <<MAIN>>, <<MAIN, F_A>>, <<MAIN, F_A, F_B>>, <<MAIN, F_B>>,
      <<MAIN, F_B, F_A>>, <<F_A>>, <<F_A, F_B>> }

\* folders per destination
MaxFolders == 3

PrefixClosed(S) == \A q \in S : Len(q) > 1 => Parent(q) \in S

FolderDests ==
    {{Folder(q) : q \in S} :
        S \in {T \in SUBSET FolderPathPool :
                  Cardinality(T) <= MaxFolders /\ PrefixClosed(T)}}

\* lines 100-104, 110-133: the create requests one call sends
create_requests(d, folder_path) ==
    IF Exists(d, folder_path) THEN 0
    ELSE Cardinality({k \in 1..Len(folder_path) :
                         SubSeq(folder_path, 1, k) = folder_path})

InitFolder ==
    /\ Idle("mkdir")
    /\ dest \in FolderDests
    /\ existing_files = <<>>
    /\ current_form_naming_format = "fallback"
    /\ \E q \in FolderPathPool : call = [path |-> q]

CallsMade == IF ret.done THEN Len(ret.value) ELSE 0

\* one call of create_sharepoint_folder; `created`: the store accepts a
\* create request it can serve
CreateFolder ==
    /\ pc = "mkdir"
    /\ CallsMade < 2
    /\ \E created \in BOOLEAN :
          LET after == create_sharepoint_folder(dest, call.path, created)
              this == [existed |-> Exists(dest, call.path),
                       posts |-> create_requests(dest, call.path),
                       accepted |-> created, before |-> dest, after |-> after]
          IN /\ dest' = after
             /\ ret' = [done |-> TRUE,
                        value |-> IF ret.done THEN Append(ret.value, this)
                                  ELSE <<this>>]
    /\ UNCHANGED <<pc, forms, existing_files, stats, current_form_naming_format,
                   cur, media_urls, form_stats, results, xfer, hist, call>>

SpecFolder == InitFolder /\ [][CreateFolder]_vars

Prefixes(path) == {SubSeq(path, 1, k) : k \in 1..Len(path)}

\* C15: folder creation is idempotent and creates missing ancestors: after a
\* call whose create requests the store does not turn away, every prefix of
\* the path is a folder of the destination; a call for a path that exists
\* sends no create request and leaves the destination as it was; and a second
\* call leaves the destination as the first one left it.
C15_CreatesAncestorsIdempotent ==
    ret.done =>
        /\ \A i \in 1..Len(ret.value) :
               LET c == ret.value[i] IN
               /\ c.accepted => \A q \in Prefixes(call.path) : Folder(q) \in c.after
               /\ c.existed => c.posts = 0 /\ c.after = c.before
        /\ Len(ret.value) = 2 /\ ret.value[1].accepted /\ ret.value[2].accepted =>
               ret.value[2].after = ret.value[1].after

(***************************************************************************)
(* SpecUrl: the candidates of one column, lines 512-520, for attachment    *)
(* lists drawn over every combination of the three URL keys.  call holds   *)
(* the parsed list, ret.value the candidates.                              *)
(***************************************************************************)
URL_LARGE == "urlL"

URL_DEFAULT == "urlD"

URL_MEDIUM == "urlM"

UrlAtts ==
    {Att(l, d, m, fn, SrcEdge) :
        l \in {"", URL_LARGE}, d \in {"", URL_DEFAULT}, m \in {"", URL_MEDIUM},
        fn \in {StrVal(A_JPG), MissingVal}}

\* attachments per column
MaxAtts == 2

InitUrl ==
    /\ Idle("urls")
    /\ dest = {}
    /\ existing_files = <<>>
    /\ current_form_naming_format = "fallback"
    /\ \E atts \in SeqsUpTo(UrlAtts, MaxAtts), row_num \in 1..2 :
           call = [atts |-> atts, row_num |-> row_num]

\* lines 512-520: the loop over the parsed attachments of a column
CollectUrls ==
    /\ pc = "urls"
    /\ ~ret.done
    /\ ret' = [done |-> TRUE,
               value |-> Candidates(Field(COL_PHOTO, call.atts), call.row_num)]
    /\ UNCHANGED <<runVars, current_form_naming_format, call>>

SpecUrl == InitUrl /\ [][CollectUrls]_vars

HasUrl(att) ==
    att.download_large_url # "" \/ att.download_url # "" \/ att.download_medium_url # ""

\* the elements of the list that have a URL, and the place of each among them
Kept(atts) == {i \in 1..Len(atts) : HasUrl(atts[i])}

Rank(atts, i) == Cardinality({j \in Kept(atts) : j <= i})

JsonAnswers ==
    {"raise", "status", "notjson", "other", "results_empty", "results_rows",
     "list_empty", "list_rows"}

CsvAnswers == {"raise", "status", "csv_empty", "csv_rows"}

\* the records endpoint i holds; each endpoint has its own, to tell them apart
Rows(i) == <<[endpoint |-> i]>>

\* the list an answer carries, <<>> when it carries none
Records(answer, i) ==
    IF answer \in {"results_rows", "list_rows", "csv_rows"} THEN Rows(i) ELSE <<>>

\* lines 407-418 and 424-435: what one JSON endpoint makes the function do
JsonStep(answer, caught) ==
    IF answer = "raise" THEN "except"
    ELSE IF answer = "status" THEN "next"
    ELSE IF answer = "notjson" THEN (IF caught THEN "next" ELSE "except")
    ELSE IF answer = "other" THEN "next"
    ELSE "return"

Fetched(value, asked) == [value |-> value, asked |-> asked]

\* a variant of fetch_form_data_safe that goes on to the next endpoint when an
\* endpoint gives an empty list
fetch_form_data_safe_SkipEmpty(answers, caught) ==
    LET first == {i \in 1..3 : Records(answers[i], i) # <<>>} IN
    IF first = {} THEN Fetched(<<>>, 3)
    ELSE LET k == CHOOSE i \in first : \A j \in first : i <= j IN
         Fetched(Rows(k), k)

\* lines 401-454: the value returned and the number of endpoints asked
fetch_form_data_safe(answers, caught) ==
    LET primary == JsonStep(answers[1], caught)
        export == JsonStep(answers[2], caught)
    IN IF primary = "return" THEN Fetched(Records(answers[1], 1), 1)
       ELSE IF primary = "except" THEN Fetched(<<>>, 1)
       ELSE IF export = "return" THEN Fetched(Records(answers[2], 2), 2)
       ELSE IF export = "except" THEN Fetched(<<>>, 2)
       ELSE Fetched(Records(answers[3], 3), 3)

InitFetch ==
    /\ Idle("fetch")
    /\ dest = {}
    /\ existing_files = <<>>
    /\ current_form_naming_format = "fallback"
    /\ \E a \in JsonAnswers, b \in JsonAnswers, c \in CsvAnswers, caught \in BOOLEAN :
           call = [answers |-> <<a, b, c>>, caught |-> caught]

\* line 465: the call made by process_form_media
FetchData ==
    /\ pc = "fetch"
    /\ ~ret.done
    /\ ret' = [done |-> TRUE,
               value |-> fetch_form_data_safe(call.answers, call.caught)]
    /\ UNCHANGED <<runVars, current_form_naming_format, call>>

SpecFetch == InitFetch /\ [][FetchData]_vars

\* the endpoints that gave a non-empty list
NonEmpty == {i \in 1..3 : Records(call.answers[i], i) # <<>>}

\* C17 as stated: the endpoints are asked in order until one gives a non-empty
\* result, which is returned; the empty list is returned only when none of
\* the three gave one.
C17_FirstNonEmpty ==
    ret.done =>
        IF NonEmpty = {}
        THEN ret.value = Fetched(<<>>, 3)
        ELSE \E k \in NonEmpty :
                 /\ \A j \in NonEmpty : k <= j
                 /\ ret.value = Fetched(Rows(k), k)

\* endpoint i answered 200 with a body of the expected shape
Usable(i) ==
    IF i = 3 THEN call.answers[i] \in {"csv_empty", "csv_rows"}
    ELSE call.answers[i] \in {"results_empty", "results_rows", "list_empty", "list_rows"}

\* the request to endpoint i raised, or reading its body raised an error the
\* endpoint's own handler does not catch
Broke(i) ==
    \/ call.answers[i] = "raise"
    \/ i < 3 /\ call.answers[i] = "notjson" /\ ~call.caught

Decisive == {i \in 1..3 : Usable(i) \/ Broke(i)}

\* C17: the endpoints are asked in the order primary, export, CSV, the next
\* one being asked exactly when the one before answered with another status
\* than 200 or with a body of another shape; the function returns the list of
\* the first endpoint that answered 200 with the expected shape, empty or not,
\* and the empty list when no endpoint did or when a request raised before
\* one did.
C17_FirstUsableAnswer ==
    ret.done =>
        IF Decisive = {}
        THEN ret.value = Fetched(<<>>, 3)
        ELSE \E k \in Decisive :
                 /\ \A j \in Decisive : k <= j
                 /\ ret.value.asked = k
                 /\ ret.value.value = IF Usable(k) THEN Records(call.answers[k], k)
                                       ELSE <<>>

\* the primary endpoint gave an empty list and the export endpoint holds
\* records: the empty list was returned and the export endpoint never asked
C17_Witness ==
    /\ ret.done
    /\ call.answers[1] = "results_empty"
    /\ call.answers[2] = "list_rows"
    /\ ret.value = Fetched(<<>>, 1)

(***************************************************************************)
(* The byte ranges of the chunked path and the accounting of the run,      *)
(* under Spec.                                                             *)
(***************************************************************************)
\* the chunk requests of the transfer in progress, in the order sent
ChunksSent == SelectSeq(Sent, LAMBDA r : r.op = "chunk")

\* C18: the byte ranges of the chunk requests are well formed: the first
\* starts at offset 0, each later one starts where the one before it ended, no
\* chunk is empty or longer than chunk_size (320 KiB), and every range lies
\* within the total length its header declares, whether or not the source
\* reported a content length.
C18_ChunkRangesWellFormed ==
    \A i \in 1..Len(ChunksSent) :
        LET c == ChunksSent[i] IN
        /\ c.offset = IF i = 1 THEN 0
                       ELSE ChunksSent[i - 1].offset + ChunksSent[i - 1].length
        /\ c.length >= 1
        /\ c.length <= chunk_size
        /\ c.offset + c.length <= c.total

\* no attachment is in flight
BetweenAttachments == pc \in {"form", "field", "cand", "done"}

\* C19: whenever no attachment is in flight, total_media is the sum of
\* transferred, failed and skipped: every media counted in total_media has
\* ended in exactly one of the three, also when its processing was cut short
\* by an error the except of the column swallowed.
C19_AccountingConservation ==
    BetweenAttachments =>
        stats.total_media = stats.transferred + stats.failed + stats.skipped

\* the bytes the transfer that has returned wrote to the destination
BytesWritten ==
    IF SentOps("put") # {}
    THEN Sent[CHOOSE i \in SentOps("put") : TRUE].length
    ELSE SumOf(ChunksSent, "length")

\* C20: a transfer that succeeds adds to total_size exactly the bytes it
\* wrote to the destination (the length of the content on the single-request
\* and fallback paths, the sum of the chunk lengths on the chunked path), and
\* a transfer that fails leaves total_size as it was.
C20_SizeIsBytesWritten ==
    pc = "xfer" /\ xfer.pc = "ret" =>
        stats.total_size - hist.statsAtCall.total_size =
            IF xfer.success THEN BytesWritten ELSE 0

(***************************************************************************)
(* SpecRowDup: the duplicate check of line 549 on names create_filename    *)
(* derives, against catalogs of names it derived.  call holds the          *)
(* derivation of the name checked, existing_files the catalog of the form. *)
(***************************************************************************)
X_2_JPG == <<"x", "_", "2", ".", "j", "p", "g">>

C_PNG == <<"c", ".", "p", "n", "g">>

\* the submissions names are derived from: two with a date and a type, one
\* with no Date
DerivRows ==
    { RichRow(<<>>),
      Submission(TRUE, StrVal(DATE_2), StrVal(TYPE_2), <<>>),
      PlainRow(<<>>) }

DerivRowNums == {1, 2, 12}

DerivBases == {A_JPG, X_2_JPG, C_PNG}

\* lines 545-546: a name with the row it was derived for and the format
\* create_filename stored
Derivation(row_data, row_num, base_filename) ==
    LET made == create_filename(row_data, row_num, base_filename) IN
    [filename |-> made.name, fmt |-> made.fmt, row_num |-> row_num]

Derivations ==
    {Derivation(r, n, b) : r \in DerivRows, n \in DerivRowNums, b \in DerivBases}

\* derived files cataloged for the form
MaxDerived == 2

DerivedCatalogs ==
    {[f \in {FORM_1_FOLDER} |-> S] :
        S \in {T \in SUBSET {d.filename : d \in Derivations} :
                  T # {} /\ Cardinality(T) <= MaxDerived}}

InitRowDup ==
    /\ Idle("rowdup")
    /\ dest = {}
    /\ existing_files \in DerivedCatalogs
    /\ call \in Derivations
    /\ current_form_naming_format = call.fmt

\* lines 549-553: the check of the name line 546 has just derived
CheckDerived ==
    /\ pc = "rowdup"
    /\ ~ret.done
    /\ ret' = [done |-> TRUE,
               value |-> is_file_already_uploaded(
                             call.filename, FORM_1_FOLDER, existing_files,
                             current_form_naming_format)]
    /\ UNCHANGED <<runVars, current_form_naming_format, call>>

SpecRowDup == InitRowDup /\ [][CheckDerived]_vars

\* the rows a name is derived for
RowsOf(filename) == {d.row_num : d \in {e \in Derivations : e.filename = filename}}

\* C21: row-keyed matching never confuses rows: against a catalog that holds
\* only names create_filename derives, the check of a name derived for row N
\* answers true only if the form's catalog holds a name derived for row N; a
\* cataloged name of another row never makes the row-N attachment a duplicate.
C21_RowsNeverConfused ==
    pc = "rowdup" /\ ret.done /\ ret.value =>
        \E n \in existing_files[FORM_1_FOLDER] : call.row_num \in RowsOf(n)

(***************************************************************************)
(* The paths one pass of process_form_media writes, under Spec.            *)
(***************************************************************************)
\* the path the transfer that has returned was given (line 157)
WrittenPath == Append(xfer.folder, xfer.filename)

\* C22: within one pass of process_form_media no two media are written to
\* the same path (column folder and derived file name): a transfer that
\* succeeds never writes a path an earlier transfer of the pass has written,
\* also when one column holds several attachments of the same extension.
C22_NoPathWrittenTwice ==
    pc = "xfer" /\ xfer.pc = "ret" /\ xfer.success => WrittenPath \notin hist.wrote

====
